---- MODULE Spec2Model ----
(***************************************************************************)
(* Model of pyvyos.device.VyDevice: the payload builder (_get_payload),    *)
(* the request executor (_api_request) and the operation wrappers.         *)
(*                                                                         *)
(* Python values are modelled as follows.                                  *)
(*   - a str path segment s         : [list |-> FALSE, segs |-> <<s>>]     *)
(*   - a list of str segments l     : [list |-> TRUE,  segs |-> l]         *)
(*   - a path argument              : a sequence of such elements; the     *)
(*     inner lists are distinct list objects identified by their position  *)
(*     in the caller's list, so that writes through an alias are seen by   *)
(*     the caller                                                          *)
(*   - a dict                       : a record; an absent key is an absent *)
(*     field                                                               *)
(*   - json.dumps(x)                : [kind |-> "object" | "array",        *)
(*     items |-> the dicts], a snapshot of x at the time of the call       *)
(*   - None                         : the string None                      *)
(*   - False / a str (error field)  : [bool |-> FALSE] / [str |-> s]       *)
(***************************************************************************)
EXTENDS Integers, Sequences, FiniteSets, TLC

\* self       : the VyDevice (connection configuration)
\* callerPath : the caller's path object, passed to every call that takes a path
\* the rest describes the latest call only:
\* call       : the method invoked and its arguments as they were at the call
\* reply      : the outcome of requests.post
\* sent       : the arguments of requests.post (the payload as it was POSTed)
\* payload    : the payload dict as the call left it
\* response   : the ApiResponse returned
\* raised     : the exception that left the call, or "none"
VARIABLES self, callerPath, call, reply, sent, payload, response, raised

vars == <<self, callerPath, call, reply, sent, payload, response, raised>>

\* ---------------------------------------------------------------- bounds
\* longest caller path (outer list) given to the payload builder
MaxPathLen == 4
\* longest caller path (outer list) given to the operation wrappers
MaxCallPathLen == 2
\* a call is made only while every inner list of the caller's path is at
\* most this long (the builder can grow the caller's inner lists)
MaxInnerLen == 3

\* ---------------------------------------------------------------- values
None == "<None>"

Plain(s) == [list |-> FALSE, segs |-> <<s>>]

List(l) == [list |-> TRUE, segs |-> l]

PyFalse == [bool |-> FALSE]

PyStr(s) == [str |-> s]

EmptyDict == "{}"

NoCall == [method |-> None, path |-> <<>>]

NoReply == [kind |-> None]

NoSent == [url |-> None]

NoPayload == [none |-> TRUE]

NoResponse == [none |-> TRUE]

\* the inputs the model draws from
BuildElems == {Plain("a"), Plain("d"), List(<<>>), List(<<"b", "c">>), List(<<"e">>)}

CallElems == {Plain("a"), List(<<"b", "c">>)}

PathsOver(elems, n) == UNION {[1..k -> elems] : k \in 0..n}

\* VyDevice(hostname, apikey): the other parameters at their defaults
DefaultDevice ==
    [hostname |-> "vyos1", apikey |-> "KEY-1", protocol |-> "https",
     port |-> 443, verify |-> TRUE, timeout |-> 10]

Devices ==
    { DefaultDevice,
      [hostname |-> "vyos2", apikey |-> "KEY-2", protocol |-> "http",
       port |-> 8080, verify |-> FALSE, timeout |-> 3] }

Bodies ==
    { [json |-> FALSE],
      [json |-> TRUE, success |-> TRUE, data |-> "{\"x\": 1}"],
      [json |-> TRUE, success |-> FALSE, error |-> "bad path"] }

\* the optional arguments of a call: none, or one of file / url / name
OptArgs ==
    { [file |-> None, url |-> None, name |-> None],
      [file |-> "f.cfg", url |-> None, name |-> None],
      [file |-> None, url |-> "http://img/1.iso", name |-> None],
      [file |-> None, url |-> None, name |-> "img1"] }

Outcomes ==
    {[kind |-> "ConnectionError", msg |-> "refused"]}
    \cup {[kind |-> "ReadTimeout"]}
    \cup {[kind |-> "response", status_code |-> 200, body |-> b] : b \in Bodies}
    \cup {[kind |-> "response", status_code |-> 503, body |-> [json |-> FALSE]]}

\* ---------------------------------------------------------------- _get_url
GetUrl(dev, command) ==
    dev.protocol \o "://" \o dev.hostname \o ":" \o ToString(dev.port) \o "/" \o command

\* ---------------------------------------------------------------- _get_payload
\* data[k] = v when v is not None
Opt(k, v) == IF v = None THEN <<>> ELSE [x \in {k} |-> v]

JsonDumpsObject(d) == [kind |-> "object", items |-> <<d>>]

JsonDumpsArray(ds) == [kind |-> "array", items |-> ds]

\* current_command['path'] during the scan: cur.ref = 0 is the fresh list the
\* scan created (contents cur.segs), cur.ref = k > 0 is the caller's inner
\* list path[k] itself (current_command = {'op': op, 'path': p})
CurSegs(path, cur) == IF cur.ref = 0 THEN cur.segs ELSE path[cur.ref].segs

\* a flush that forgets the test for an empty path
FlushAlways(op, path, cur, data) ==
    Append(data, [op |-> op, path |-> List(CurSegs(path, cur))])

\* if current_command['path']: data.append(current_command)
Flush(op, path, cur, data) ==
    IF CurSegs(path, cur) # <<>>
    THEN Append(data, [op |-> op, path |-> List(CurSegs(path, cur))])
    ELSE data

\* a seed that takes the element before the one just read
SeedPrevious(i) == [ref |-> IF i > 1 THEN i - 1 ELSE i, segs |-> <<>>]

\* current_command = {'op': op, 'path': p} for the list p = path[i]
Seed(i) == [ref |-> i, segs |-> <<>>]

\* an append that starts the path over with the segment
AppendCurReplace(path, cur, s) ==
    [path |-> path, cur |-> [ref |-> 0, segs |-> <<s>>]]

\* current_command['path'].append(p): the list written is the fresh one or
\* the caller's inner list
AppendCur(path, cur, s) ==
    IF cur.ref = 0
    THEN [path |-> path, cur |-> [cur EXCEPT !.segs = Append(@, s)]]
    ELSE [path |-> [path EXCEPT ![cur.ref].segs = Append(@, s)], cur |-> cur]

RECURSIVE Scan(_, _, _, _, _)
Scan(op, path, i, cur, data) ==
    IF i > Len(path)
    THEN [data |-> Flush(op, path, cur, data), path |-> path]
    ELSE IF path[i].list
         THEN Scan(op, path, i + 1, Seed(i), Flush(op, path, cur, data))
         ELSE LET w == AppendCur(path, cur, path[i].segs[1])
              IN  Scan(op, w.path, i + 1, w.cur, data)

\* the value returned (or the exception raised) and the caller's path object
\* after the call
GetPayload(dev, op, path, file, url, name) ==
    IF path = <<>>
    THEN [raised |-> "none",
          payload |-> [data |-> JsonDumpsObject([op |-> op, path |-> List(<<>>)]
                                                 @@ Opt("file", file)
                                                 @@ Opt("url", url)
                                                 @@ Opt("name", name)),
                       key |-> dev.apikey],
          path |-> path]
    ELSE IF Len(path) = 1
    THEN [raised |-> "none",
          payload |-> [data |-> JsonDumpsObject([op |-> op, path |-> path[1]]),
                       key |-> dev.apikey]
                      @@ Opt("url", url),
          path |-> path]
    ELSE LET s == Scan(op, path, 1, [ref |-> 0, segs |-> <<>>], <<>>)
         IN  IF file # None \/ name # None
             THEN [raised |-> "TypeError", payload |-> NoPayload, path |-> s.path]
             ELSE [raised |-> "none",
                   payload |-> [data |-> JsonDumpsArray(s.data), key |-> dev.apikey]
                               @@ Opt("url", url),
                   path |-> s.path]

\* ---------------------------------------------------------------- _api_request
\* the bound on the caller's inner lists under which calls are made
ShortEnough(path) == \A i \in DOMAIN path : Len(path[i].segs) <= MaxInnerLen

\* a classification that leaves the underlying message out of a connection
\* error
ClassifyLoose(o) ==
    IF o.kind = "ConnectionError"
    THEN [status |-> 0, result |-> EmptyDict, error |-> PyStr("connection error: ")]
    ELSE IF o.status_code = 200
    THEN IF ~o.body.json
         THEN [status |-> o.status_code, result |-> EmptyDict,
               error |-> PyStr("json decode error")]
         ELSE IF o.body.success = TRUE
         THEN [status |-> o.status_code, result |-> o.body.data, error |-> PyFalse]
         ELSE [status |-> o.status_code, result |-> EmptyDict,
               error |-> PyStr(o.body.error)]
    ELSE [status |-> o.status_code, result |-> EmptyDict, error |-> PyStr("http error")]

\* the classification of the outcome of requests.post (an outcome that the
\* try statement catches or that is a response)
Classify(o) ==
    IF o.kind = "ConnectionError"
    THEN [status |-> 0, result |-> EmptyDict,
          error |-> PyStr("connection error: " \o o.msg)]
    ELSE IF o.status_code = 200
    THEN IF ~o.body.json
         THEN [status |-> o.status_code, result |-> EmptyDict,
               error |-> PyStr("json decode error")]
         ELSE IF o.body.success = TRUE
         THEN [status |-> o.status_code, result |-> o.body.data, error |-> PyFalse]
         ELSE [status |-> o.status_code, result |-> EmptyDict,
               error |-> PyStr(o.body.error)]
    ELSE [status |-> o.status_code, result |-> EmptyDict, error |-> PyStr("http error")]

\* a redaction that removes nothing
KeepKey(p) == p

\* del(payload['key'])
DelKey(p) == [f \in DOMAIN p \ {"key"} |-> p[f]]

\* except requests.exceptions.ConnectionError: a read timeout
\* (requests.exceptions.ReadTimeout) is no ConnectionError and propagates
Caught(o) == o.kind # "ReadTimeout"

\* _api_request(command, op, path, file, url, name) with the network outcome o.
\* byDefault: the path is a default argument and not the caller's object.
\* The url argument is rebound to the target address before the payload is
\* built, so the builder never sees the caller's url.
ApiRequest(command, op, path, byDefault, file, url, name, o) ==
    LET target == GetUrl(self, command)
        built == GetPayload(self, op, path, file, target, name)
    IN  /\ ShortEnough(path)
        /\ callerPath' = IF byDefault THEN callerPath ELSE built.path
        /\ UNCHANGED self
        /\ IF built.raised # "none"
           THEN /\ raised' = built.raised
                /\ payload' = NoPayload
                /\ sent' = NoSent
                /\ reply' = NoReply
                /\ response' = NoResponse
           ELSE /\ sent' = [url |-> target, data |-> built.payload,
                            verify |-> self.verify, timeout |-> self.timeout]
                /\ reply' = o
                /\ IF ~Caught(o)
                   THEN /\ raised' = o.kind
                        /\ payload' = built.payload
                        /\ response' = NoResponse
                   ELSE /\ raised' = "none"
                        /\ payload' = DelKey(built.payload)
                        /\ response' = [status |-> Classify(o).status,
                                        request |-> DelKey(built.payload),
                                        result |-> Classify(o).result,
                                        error |-> Classify(o).error]

\* ---------------------------------------------------------------- wrappers
\* the invocation as the caller made it
Invoked(method, op, path, byDefault, file, url, name) ==
    [method |-> method, op |-> op, path |-> path, defaulted |-> byDefault,
     file |-> file, url |-> url, name |-> name]

DefaultEmpty == <<>>

DefaultNow == <<Plain("now")>>

retrieve_show_config ==
    \E o \in Outcomes :
        /\ call' = Invoked("retrieve_show_config", "showConfig", callerPath, FALSE, None, None, None)
        /\ ApiRequest("retrieve", "showConfig", callerPath, FALSE, None, None, None, o)

retrieve_return_values ==
    \E o \in Outcomes :
        /\ call' = Invoked("retrieve_return_values", "returnValues", callerPath, FALSE, None, None, None)
        /\ ApiRequest("retrieve", "returnValues", callerPath, FALSE, None, None, None, o)

retrieve_exists ==
    \E o \in Outcomes :
        /\ call' = Invoked("retrieve_exists", "exists", callerPath, FALSE, None, None, None)
        /\ ApiRequest("retrieve", "exists", callerPath, FALSE, None, None, None, o)

reset ==
    \E o \in Outcomes :
        /\ call' = Invoked("reset", "reset", callerPath, FALSE, None, None, None)
        /\ ApiRequest("reset", "reset", callerPath, FALSE, None, None, None, o)

image_add ==
    \E o \in Outcomes, url \in {None, "http://img/1.iso"} :
        /\ call' = Invoked("image_add", "add", DefaultEmpty, TRUE, None, url, None)
        /\ ApiRequest("image", "add", DefaultEmpty, TRUE, None, url, None, o)

image_delete ==
    \E o \in Outcomes, name \in {"img1"} :
        /\ call' = Invoked("image_delete", "delete", DefaultEmpty, TRUE, None, None, name)
        /\ ApiRequest("image", "delete", DefaultEmpty, TRUE, None, None, name, o)

show ==
    \E o \in Outcomes :
        /\ call' = Invoked("show", "show", callerPath, FALSE, None, None, None)
        /\ ApiRequest("show", "show", callerPath, FALSE, None, None, None, o)

generate ==
    \E o \in Outcomes :
        /\ call' = Invoked("generate", "generate", callerPath, FALSE, None, None, None)
        /\ ApiRequest("generate", "generate", callerPath, FALSE, None, None, None, o)

configure_set ==
    \E o \in Outcomes :
        /\ call' = Invoked("configure_set", "set", callerPath, FALSE, None, None, None)
        /\ ApiRequest("configure", "set", callerPath, FALSE, None, None, None, o)

configure_delete ==
    \E o \in Outcomes :
        /\ call' = Invoked("configure_delete", "delete", callerPath, FALSE, None, None, None)
        /\ ApiRequest("configure", "delete", callerPath, FALSE, None, None, None, o)

config_file_save ==
    \E o \in Outcomes, file \in {None, "f.cfg"} :
        /\ call' = Invoked("config_file_save", "save", DefaultEmpty, TRUE, file, None, None)
        /\ ApiRequest("config-file", "save", DefaultEmpty, TRUE, file, None, None, o)

config_file_load ==
    \E o \in Outcomes, file \in {None, "f.cfg"} :
        /\ call' = Invoked("config_file_load", "load", DefaultEmpty, TRUE, file, None, None)
        /\ ApiRequest("config-file", "load", DefaultEmpty, TRUE, file, None, None, o)

reboot ==
    \E o \in Outcomes, noArgs \in BOOLEAN :
        /\ call' = Invoked("reboot", "reboot", IF noArgs THEN DefaultNow ELSE callerPath,
                            noArgs, None, None, None)
        /\ ApiRequest("reboot", "reboot", IF noArgs THEN DefaultNow ELSE callerPath,
                      noArgs, None, None, None, o)

poweroff ==
    \E o \in Outcomes, noArgs \in BOOLEAN :
        /\ call' = Invoked("poweroff", "poweroff", IF noArgs THEN DefaultNow ELSE callerPath,
                            noArgs, None, None, None)
        /\ ApiRequest("poweroff", "poweroff", IF noArgs THEN DefaultNow ELSE callerPath,
                      noArgs, None, None, None, o)

\* a direct call of _api_request with optional arguments next to a path
api_request ==
    \E o \in Outcomes, a \in OptArgs :
        /\ call' = Invoked("_api_request", "set", callerPath, FALSE, a.file, a.url, a.name)
        /\ ApiRequest("configure", "set", callerPath, FALSE, a.file, a.url, a.name, o)

\* ---------------------------------------------------------------- specification
Fresh ==
    /\ call = NoCall
    /\ reply = NoReply
    /\ sent = NoSent
    /\ payload = NoPayload
    /\ response = NoResponse
    /\ raised = "none"

InitBuild ==
    /\ self = DefaultDevice
    /\ callerPath \in PathsOver(BuildElems, MaxPathLen)
    /\ Fresh

\* a direct call of _get_payload on the caller's path object
get_payload ==
    \E op \in {"set", "delete"}, o \in OptArgs :
        /\ ShortEnough(callerPath)
        /\ LET r == GetPayload(self, op, callerPath, o.file, o.url, o.name)
           IN  /\ callerPath' = r.path
               /\ payload' = r.payload
               /\ raised' = r.raised
        /\ call' = Invoked("_get_payload", op, callerPath, FALSE, o.file, o.url, o.name)
        /\ reply' = NoReply
        /\ sent' = NoSent
        /\ response' = NoResponse
        /\ UNCHANGED self

NextBuild == get_payload

SpecBuild == InitBuild /\ [][NextBuild]_vars

Init ==
    /\ self \in Devices
    /\ callerPath \in PathsOver(CallElems, MaxCallPathLen)
    /\ Fresh

Next ==
    \/ retrieve_show_config
    \/ retrieve_return_values
    \/ retrieve_exists
    \/ reset
    \/ image_add
    \/ image_delete
    \/ show
    \/ generate
    \/ configure_set
    \/ configure_delete
    \/ config_file_save
    \/ config_file_load
    \/ reboot
    \/ poweroff
    \/ api_request

Spec == Init /\ [][Next]_vars

\* ---------------------------------------------------------------- claims
\* the serialized data of the latest call: what _get_payload returned, or
\* what was POSTed
HasBuilt == IF call.method = "_get_payload" THEN raised = "none" ELSE sent # NoSent

Built == IF call.method = "_get_payload" THEN payload.data ELSE sent.data.data

Range(f) == {f[i] : i \in DOMAIN f}

\* every string a dict of the serialized data holds
StringsOfDict(d) ==
    {d.op} \cup Range(d.path.segs) \cup {d[f] : f \in DOMAIN d \ {"op", "path"}}

\* every string a payload holds outside its key field
StringsOfRequest(r) ==
    UNION {StringsOfDict(r.data.items[i]) : i \in DOMAIN r.data.items}
    \cup {r[f] : f \in DOMAIN r \ {"data", "key"}}

AllNested(p) == \A i \in DOMAIN p : p[i].list

AllPlain(p) == \A i \in DOMAIN p : ~p[i].list

NonEmptyItem(e) == e.segs # <<>>

\* the segments of a flat path, in order
Flat(p) == [i \in DOMAIN p |-> p[i].segs[1]]

\* the Operation Request {op, path: segs}
OperationRequest(op, segs) == [op |-> op, path |-> List(segs)]

\* C1: every Response returned has a request without a key field and without
\* the credential's value anywhere in it, while the payload that was POSTed
\* carried key = the stored credential (the caller's own strings are not the
\* credential).
C1_CredentialRedacted ==
    response # NoResponse =>
        /\ "key" \notin DOMAIN response.request
        /\ self.apikey \notin StringsOfRequest(response.request)
        /\ "key" \in DOMAIN sent.data
        /\ sent.data.key = self.apikey
        /\ response.request = [f \in DOMAIN sent.data \ {"key"} |-> sent.data[f]]

\* C1 witness: a Response returned after a successful exchange, whose posted
\* payload carried the key
C1_Witness ==
    /\ response # NoResponse
    /\ reply.kind = "response"
    /\ response.error = PyFalse
    /\ "key" \in DOMAIN sent.data
    /\ "url" \in DOMAIN response.request

\* C2 (as claimed): every call of the Request Executor returns a Response and
\* no exception leaves it.
C2_NeverRaises ==
    (call # NoCall /\ call.method # "_get_payload") =>
        (raised = "none" /\ response # NoResponse)

\* C3: the Response is classified as the table says, for every outcome of the
\* network call that yields a Response.
C3_Classification ==
    response # NoResponse =>
        CASE reply.kind = "ConnectionError" ->
                /\ response.status = 0
                /\ response.result = EmptyDict
                /\ response.error = PyStr("connection error: " \o reply.msg)
          [] reply.kind = "response" /\ reply.status_code # 200 ->
                /\ response.status = reply.status_code
                /\ response.result = EmptyDict
                /\ response.error = PyStr("http error")
          [] reply.kind = "response" /\ reply.status_code = 200 /\ ~reply.body.json ->
                /\ response.status = 200
                /\ response.result = EmptyDict
                /\ response.error = PyStr("json decode error")
          [] reply.kind = "response" /\ reply.status_code = 200 /\ reply.body.json ->
                IF reply.body.success
                THEN /\ response.status = 200
                     /\ response.result = reply.body.data
                     /\ response.error = PyFalse
                ELSE /\ response.status = 200
                     /\ response.result = EmptyDict
                     /\ response.error = PyStr(reply.body.error)

\* C3 witness: a Response for a refused connection
C3_Witness ==
    /\ response # NoResponse
    /\ reply.kind = "ConnectionError"
    /\ response.status = 0
    /\ response.error = PyStr("connection error: refused")

\* C4: for a path made only of non-empty inner sequences p1..pn, the
\* serialized data is the single object {op, path: p1} when n = 1 and a batch
\* of exactly n requests, the i-th {op, path: pi}, when n >= 2.
C4_MultiPath ==
    (HasBuilt /\ call.path # <<>> /\ AllNested(call.path)
              /\ \A i \in DOMAIN call.path : NonEmptyItem(call.path[i])) =>
        IF Len(call.path) = 1
        THEN Built = [kind |-> "object",
                      items |-> <<OperationRequest(call.op, call.path[1].segs)>>]
        ELSE Built = [kind |-> "array",
                      items |-> [i \in DOMAIN call.path |->
                                    OperationRequest(call.op, call.path[i].segs)]]

\* C4 witness: a batch built from three non-empty inner sequences
C4_Witness ==
    /\ HasBuilt
    /\ call.path = <<List(<<"b", "c">>), List(<<"e">>), List(<<"b", "c">>)>>
    /\ Len(Built.items) = 3

\* C4 witness for n = 1: the single inner sequence is unwrapped
C4_WitnessSingle ==
    /\ HasBuilt
    /\ call.path = <<List(<<"b", "c">>)>>
    /\ Built.kind = "object"

\* C5 (as claimed): for a flat path of more than one segment the data is one
\* object, not a batch, with the given verb and the input as its path.
C5_FlatSingleObject ==
    (HasBuilt /\ Len(call.path) > 1 /\ AllPlain(call.path)) =>
        Built = [kind |-> "object",
                 items |-> <<OperationRequest(call.op, Flat(call.path))>>]

\* C6 (as claimed): reboot() and poweroff() without arguments send, to the
\* endpoint of their name, the verb with the path ["now"], a sequence of one
\* string (stated of the calls that return a Response).
C6_DefaultNow ==
    (call.method \in {"reboot", "poweroff"} /\ call.defaulted /\ response # NoResponse) =>
        /\ sent.url = GetUrl(self, call.method)
        /\ Len(sent.data.data.items) = 1
        /\ sent.data.data.items[1].op = call.method
        /\ sent.data.data.items[1].path = List(<<"now">>)

\* C7 (as claimed): with an empty path the request carries a url field iff
\* the caller gave a url, and its value is the caller's url (stated of the
\* calls that return a Response).
C7_UrlIffProvided ==
    (call.method # "_get_payload" /\ response # NoResponse /\ call.path = <<>>) =>
        LET d == sent.data.data.items[1]
        IN  /\ ("url" \in DOMAIN d) <=> (call.url # None)
            /\ call.url # None => d.url = call.url

\* C8 (as claimed): a build leaves the caller's path unchanged, so a second
\* build with the same path object, operation and optional arguments gives
\* the same data.
C8_BuilderPure ==
    [][/\ callerPath' = callerPath
       /\ (call.method = "_get_payload" /\ call'.method = "_get_payload"
           /\ call'.op = call.op /\ call'.file = call.file
           /\ call'.url = call.url /\ call'.name = call.name
           /\ raised = "none" /\ raised' = "none")
          => payload'.data = payload.data]_vars

\* C9 (as claimed): [a, [b,c], d, [e]] gives the four requests
\* [a], [b,c], [d], [e].
C9_FourRequests ==
    (HasBuilt /\ call.path = <<Plain("a"), List(<<"b", "c">>), Plain("d"), List(<<"e">>)>>) =>
        Built = [kind |-> "array",
                 items |-> << OperationRequest(call.op, <<"a">>),
                              OperationRequest(call.op, <<"b", "c">>),
                              OperationRequest(call.op, <<"d">>),
                              OperationRequest(call.op, <<"e">>) >>]

\* C9 (what the code does): [a, [b,c], d, [e]] gives the three requests
\* [a], [b,c,d], [e]: the plain segment d is appended to the request that the
\* nested sequence [b,c] began.
C9_ThreeRequests ==
    (HasBuilt /\ call.path = <<Plain("a"), List(<<"b", "c">>), Plain("d"), List(<<"e">>)>>) =>
        Built = [kind |-> "array",
                 items |-> << OperationRequest(call.op, <<"a">>),
                              OperationRequest(call.op, <<"b", "c", "d">>),
                              OperationRequest(call.op, <<"e">>) >>]

\* C9 witness: the batch built from [a, [b,c], d, [e]]
C9_Witness ==
    /\ HasBuilt
    /\ call.path = <<Plain("a"), List(<<"b", "c">>), Plain("d"), List(<<"e">>)>>
    /\ Built.kind = "array"

\* the positions of a path that hold an empty nested sequence
EmptyNested(p) == {i \in DOMAIN p : p[i].list /\ p[i].segs = <<>>}

\* C10 (as claimed): in a path of several elements made of nested sequences,
\* every empty nested sequence yields a request with an empty path at its
\* position, so the batch has one request per element.
C10_EmptyPassedThrough ==
    (HasBuilt /\ Len(call.path) > 1 /\ AllNested(call.path)
              /\ EmptyNested(call.path) # {}) =>
        Built = [kind |-> "array",
                 items |-> [i \in DOMAIN call.path |->
                               OperationRequest(call.op, call.path[i].segs)]]

\* C10 (what the code does): in a path of several elements no request of the
\* batch has an empty path; when the elements are all nested sequences the
\* batch is the non-empty ones in input order, the empty ones being dropped.
C10_EmptyDropped ==
    (HasBuilt /\ Len(call.path) > 1) =>
        /\ Built.kind = "array"
        /\ \A i \in DOMAIN Built.items : Built.items[i].path.segs # <<>>
        /\ AllNested(call.path) =>
              Built.items = [i \in DOMAIN SelectSeq(call.path, NonEmptyItem) |->
                                OperationRequest(call.op, SelectSeq(call.path, NonEmptyItem)[i].segs)]

\* C10 witness: the batch built from [[e], [], [b,c]] has two requests
C10_Witness ==
    /\ HasBuilt
    /\ call.path = <<List(<<"e">>), List(<<>>), List(<<"b", "c">>)>>
    /\ Len(Built.items) = 2

====
